---- MODULE Spec2Model ----
(***************************************************************************)
(* The tunnelling fabric of Minecraft-IP-Forwarding-Mapping.               *)
(*                                                                         *)
(* Gateway (web-server.js, src/unnamed/part_000 lines 454-1290): the port  *)
(* allocation API, createPortMapping / removePortMapping, the per-port     *)
(* waiting queue and idle pool, tryMatchConnections, establishConnection,  *)
(* handleUdpMessage and the data-plane acceptor localProxyServer.          *)
(*                                                                         *)
(* Agent (client-web-server.js, src/unnamed/part_001): the data handler of *)
(* createMappingConnection that bridges a session to the local service.    *)
(*                                                                         *)
(* Node runs every callback to completion, so one action is one callback.  *)
(* A socket's `destroyed` flag is set when destroy() runs (or the peer's   *)
(* close is noticed); its 'close' event, which runs the registered close   *)
(* handlers, is a later callback.  The two are separate actions.  An       *)
(* 'error' event runs handlers that do the same as the close handlers and  *)
(* is always followed by 'close', so it is folded into the close event.    *)
(***************************************************************************)
EXTENDS Integers, Sequences, FiniteSets, TLC

\* ---------------------------------------------------------------- bounds
\* connection ids (TCP connections and UDP dispatches) plus sessions handed out in
\* one run, for the pools of bound ports and where the bindings themselves come and go
MaxObjects == 4
AllocMaxObjects == 1
MaxChunks == 3       \* chunks sent in each direction over one paired connection
MaxStream == 5       \* bytes of a session's stream that are followed

\* ------------------------------------------------------------- constants
PublicPorts == {1, 2}
LocalPorts == {1, 2}
Protocols == {"tcp", "udp", "both"}

\* The bodies of POST /api/ports/allocate that the Agent's mappings send
\* (requestPortAllocation): local port, preferred port (0: none), protocol.
Requests ==
    {[localPort |-> 1, preferredPort |-> 1, protocol |-> "both"],
     [localPort |-> 2, preferredPort |-> 0, protocol |-> "udp"],
     [localPort |-> 2, preferredPort |-> 2, protocol |-> "tcp"]}
ConnIds == 1..MaxObjects
\* byte values: enough to write the ports 1 and 2 and ports outside the ranges
Bytes == {0, 1, 2}
SessIds == 1..MaxObjects
\* datagrams of end users in one run of the UDP path
MaxDatagrams == 3
\* sessions one Agent dials for a mapping, and times the mapping is started
MaxAgentSessions == 3
MaxStarts == 3
\* calls of startMapping for one mapping
MaxCalls == 3
\* config.connection.minIdleConnections at its default, and a small maxTotalConnections
MIN_IDLE_CONNECTIONS == 1
MAX_TOTAL_CONNECTIONS == 2
\* end users that send datagrams
Clients == {"A", "B"}

\* config.json as loaded by loadConfig(): one enabled range covering the
\* public ports, no singletons, and the Gateway's own two ports.
defaultConfig ==
    [server |-> [webPort |-> 3000, localProxyPort |-> 9000],
     portRanges |-> << [startPort |-> 1, endPort |-> 2, enabled |-> TRUE] >>,
     specificPorts |-> << >>]

VARIABLES
    connectionId,       \* let connectionId: shared by TCP connections and UDP dispatches
    waitingQueue,       \* Map port -> array of pending connection ids
    idleLocalSockets,   \* Map port -> array of idle session ids
    activeConnections,  \* Map connId -> connection info (its key set)
    statsActive,        \* connectionStats.activeConnections
    activeServers,      \* Map port -> TCP server (its key set)
    activeUdpServers,   \* Map port -> UDP server (its key set)
    tcpPending,         \* ports with a TCP listen() whose callback has not run yet
    udpPending,         \* ports with a UDP bind() whose 'listening' has not run yet
    portMappings,       \* Map localPort -> publicPort
    portProtocols,      \* Map publicPort -> protocol
    conn,               \* per connId: the closure state of handleExternalConnection /
                        \* establishConnection (TCP) or of handleUdpMessage (UDP)
    sess,               \* per session: the closure state of localProxyServer's callback
    nextSess,           \* number of sessions accepted on the data-plane port so far
    fwd,                \* one paired connection end to end (end user .. local service)
    config,             \* let config = loadConfig(): port ranges, singletons, own ports
    wire,               \* the byte stream of one session as its chunks reach the Gateway
    udpFlow,            \* the UDP datagrams under way between end users and local service
    agent,              \* the Agent's connection pool of one mapping
    codec               \* one envelope, or one stream of envelopes, from writer to reader

gwVars == <<connectionId, waitingQueue, idleLocalSockets, activeConnections, statsActive,
            activeServers, activeUdpServers, tcpPending, udpPending, portMappings,
            portProtocols, conn, sess, nextSess, config, wire, udpFlow, agent, codec>>
\* the Gateway's own tables
tables == <<connectionId, waitingQueue, idleLocalSockets, activeConnections, statsActive,
            activeServers, activeUdpServers, tcpPending, udpPending, portMappings,
            portProtocols, conn, sess, nextSess, config, wire>>
vars == <<connectionId, waitingQueue, idleLocalSockets, activeConnections, statsActive,
          activeServers, activeUdpServers, tcpPending, udpPending, portMappings,
          portProtocols, conn, sess, nextSess, fwd, config, wire, udpFlow, agent, codec>>

\* ------------------------------------------------------------ JS helpers
EmptyMap == [x \in {} |-> 0]
MapSet(m, k, v) == (k :> v) @@ m
MapDel(m, k) == [x \in DOMAIN m \ {k} |-> m[x]]
\* map.get(k) || []
GetArr(m, k) == IF k \in DOMAIN m THEN m[k] ELSE << >>
Elems(seq) == {seq[i] : i \in 1..Len(seq)}

\* array.splice(array.indexOf(x), 1): removes the first occurrence only
RECURSIVE RemoveFirst(_, _)
RemoveFirst(seq, x) ==
    IF seq = << >> THEN << >>
    ELSE IF Head(seq) = x THEN Tail(seq)
    ELSE <<Head(seq)>> \o RemoveFirst(Tail(seq), x)

RanOf(m) == {m[k] : k \in DOMAIN m}

\* ------------------------------------------------------------ records
NoConn == [kind |-> "none", port |-> 0, sock |-> "none", sess |-> 0, active |-> FALSE]
NoSess == [sock |-> "none", headerReceived |-> FALSE, targetPort |-> 0]
\* One paired connection end to end.  Chunks are numbered in the order their sender
\* wrote them; a chunk from the end user also says whether its bytes pass the Agent's
\* test for a UDP envelope.
\*   c, s            connId and session of the pair on the Gateway
\*   sent, replied   what the end user / the local service wrote so far
\*   extToGw .. gwToExt   chunks in flight on the four TCP legs, oldest first
\*   localConnected  connectionRecord.localConnected of the Agent
\*   local           the Agent's localSocket: "none", "dialing", "connected"
\*   proxy           the Agent's proxySocket: "open", "destroyed" (by the Agent),
\*                   "closed" (its 'close' event has run)
\*   udpOut          chunks the Agent sent to the local service as datagrams
\*   firstData       the chunk the Agent's connect handler closes over
\*   localIn, extIn  what the local service / the end user received so far
\* no session's bytes are followed: stream is what the Agent wrote, chunks what has
\* not reached the data handler yet, oldest first
NoWire == [s |-> 0, stream |-> << >>, chunks |-> << >>]
\* The UDP path of one mapping.  A request is the datagram of one dispatch, named by
\* the Gateway's connId u.
\*   isL4D2     the mapping uses the Agent's per-client socket cache
\*   req[u]     client: rinfo of the dispatch; sess: the session the envelope went on;
\*              at: "none", "agent" (envelope written to the session), "local" (sent to
\*              the local service), "replied", "lost" (its socket was closed);
\*              responseReceived: the flag of the Agent's data-handler invocation for u
\*   toAgent, toGateway   envelopes in flight on each session, oldest first
\*   cache[c]   the cached socket of client c: held, and the request whose invocation
\*              registered its 'message' handler
\*   out        the datagrams the Gateway sent to end users: to whom, whose reply
NoReq == [client |-> "none", sess |-> 0, at |-> "none", responseReceived |-> FALSE]
NoUdp == [isL4D2 |-> FALSE,
          req |-> [u \in ConnIds |-> NoReq],
          toAgent |-> [s \in SessIds |-> << >>],
          toGateway |-> [s \in SessIds |-> << >>],
          cache |-> [c \in Clients |-> [held |-> FALSE, first |-> 0]],
          out |-> {}]
\* The Agent's side of one mapping.
\*   on        activeMappings.has(mapping.id)
\*   gen       which pool object connectionPools holds for the mapping: every
\*             startMapping makes a new one, the closures of a session keep theirs
\*   pools[g]  idleConnections and activeConnections of pool object g
\*   socks[i]  session i: "none", "dialing" (proxySocket connecting), "idle" (header
\*             written), "localDial" (net.connect to the local service under way),
\*             "active" (forwarding), "closed"; and the pool object of its closures
\*             and the port it wrote as its header (0: none yet)
\*   retries   pending setTimeout(.. createMappingConnection ..) of closed sessions
\*   chains    pending setTimeout(.. maintainMappingConnections ..)
\*   publicPort  mapping.publicPort (0: null)
\*   calls[k]  the k-th call of startMapping: "none", "asked" (its allocation request
\*             is on its way), "answered" (the response is back, the await has not
\*             resumed), "done"; whether the request was made to reuse the stored
\*             port; the preferred port of the request; the Gateway's response
\*   answer    the port of the latest 200 response of the Gateway (0: none)
NoCall == [stage |-> "none", reuse |-> FALSE, preferredPort |-> 0,
           reply |-> [success |-> FALSE, publicPort |-> 0]]
NoAgent == [on |-> FALSE, gen |-> 0,
            pools |-> [g \in 1..MaxStarts |-> [idleConnections |-> 0,
                                               activeConnections |-> 0]],
            socks |-> [i \in 1..MaxAgentSessions |->
                         [st |-> "none", pool |-> 0, header |-> 0]],
            retries |-> 0, chains |-> 0,
            publicPort |-> 0, calls |-> [k \in 1..MaxCalls |-> NoCall], answer |-> 0]
NoCodec == [stage |-> "none"]
FwdIdle == [on |-> FALSE, c |-> 0, s |-> 0, sent |-> << >>, replied |-> << >>,
            extToGw |-> << >>, gwToAgent |-> << >>, agentToGw |-> << >>,
            localToAgent |-> << >>, localConnected |-> FALSE, local |-> "none",
            firstData |-> << >>, localIn |-> << >>, extIn |-> << >>, udpOut |-> << >>,
            proxy |-> "open"]

\* socket.destroyed
Destroyed(sock) == sock \in {"destroyed", "closed"}

\* ------------------------------------------------------- port registry
RECURSIVE RangePorts(_, _)
RangePorts(lo, hi) == IF lo > hi THEN << >> ELSE <<lo>> \o RangePorts(lo + 1, hi)

RECURSIVE RangesPorts(_)
RangesPorts(ranges) ==
    IF ranges = << >> THEN << >>
    ELSE (IF Head(ranges).enabled
          THEN RangePorts(Head(ranges).startPort, Head(ranges).endPort)
          ELSE << >>) \o RangesPorts(Tail(ranges))

RECURSIVE SpecificPorts(_)
SpecificPorts(ps) ==
    IF ps = << >> THEN << >>
    ELSE (IF Head(ps).enabled THEN <<Head(ps).port>> ELSE << >>) \o SpecificPorts(Tail(ps))

\* getAvailablePorts(config): ranges first, then singletons, in configuration order
getAvailablePorts(cfg) == RangesPorts(cfg.portRanges) \o SpecificPorts(cfg.specificPorts)

isPortOccupied(port) ==
    \/ port \in activeServers
    \/ port \in activeUdpServers
    \/ port = config.server.webPort
    \/ port = config.server.localProxyPort

\* the port POST /api/ports/allocate settles on (0: none)
allocatedPort(preferredPort) ==
    IF /\ preferredPort # 0
       /\ ~isPortOccupied(preferredPort)
       /\ preferredPort \in Elems(getAvailablePorts(config))
    THEN preferredPort
    ELSE LET unoccupiedPorts == SelectSeq(getAvailablePorts(config),
                                          LAMBDA p : ~isPortOccupied(p))
         IN  IF unoccupiedPorts # << >> THEN Head(unoccupiedPorts) ELSE 0

\* ------------------------------------------------------------ pairing
\* establishConnection(externalSocket, localSocket, connId, ...) on the closure state
establishConnection(cn, c, s) == [cn EXCEPT ![c].sess = s, ![c].active = TRUE]

\* tryMatchConnections reading sockets[0] instead of sockets.shift() when it pairs
RECURSIVE MatchLoopPeek(_, _, _, _)
MatchLoopPeek(cn, queue, sockets, matched) ==
    IF queue = << >> \/ sockets = << >>
    THEN [conn |-> cn, queue |-> queue, sockets |-> sockets, matched |-> matched]
    ELSE LET c == Head(queue)
             s == Head(sockets)
         IN  IF Destroyed(cn[c].sock) \/ Destroyed(sess[s].sock)
             THEN MatchLoopPeek(cn, Tail(queue), Tail(sockets), matched)
             ELSE MatchLoopPeek(establishConnection(cn, c, s), Tail(queue), sockets,
                                matched \cup {c})

\* the while loop of tryMatchConnections; matched collects the connIds established
RECURSIVE MatchLoop(_, _, _, _)
MatchLoop(cn, queue, sockets, matched) ==
    IF queue = << >> \/ sockets = << >>
    THEN [conn |-> cn, queue |-> queue, sockets |-> sockets, matched |-> matched]
    ELSE LET c == Head(queue)
             s == Head(sockets)
         IN  IF Destroyed(cn[c].sock)
             THEN MatchLoop(cn, Tail(queue), Tail(sockets), matched)
             ELSE IF Destroyed(sess[s].sock)
             THEN MatchLoop(cn, Tail(queue), Tail(sockets), matched)
             ELSE MatchLoop(establishConnection(cn, c, s), Tail(queue), Tail(sockets),
                            matched \cup {c})

\* tryMatchConnections(publicPort) on (conn, waitingQueue, idleLocalSockets) as they
\* stand inside the calling handler
tryMatchConnections(cn, wq, idle, publicPort) ==
    LET r == MatchLoop(cn, GetArr(wq, publicPort), GetArr(idle, publicPort), {})
    IN  [conn |-> r.conn,
         wq |-> MapSet(wq, publicPort, r.queue),
         idle |-> MapSet(idle, publicPort, r.sockets),
         matched |-> r.matched]

\* ------------------------------------------------------------ Init
Init ==
    /\ connectionId = 0
    /\ waitingQueue = EmptyMap
    /\ idleLocalSockets = EmptyMap
    /\ activeConnections = {}
    /\ statsActive = 0
    /\ activeServers = {}
    /\ activeUdpServers = {}
    /\ tcpPending = {}
    /\ udpPending = {}
    /\ portMappings = EmptyMap
    /\ portProtocols = EmptyMap
    /\ conn = [c \in ConnIds |-> NoConn]
    /\ sess = [s \in SessIds |-> NoSess]
    /\ nextSess = 0
    /\ fwd = FwdIdle
    /\ config = defaultConfig
    /\ udpFlow = NoUdp
    /\ agent = NoAgent
    /\ codec = NoCodec
    /\ wire = NoWire

\* ------------------------------------------------------------ allocation
\* createPortMapping(localPort, publicPort, protocol): TRUE iff it returns true
createPortMappingOk(publicPort) ==
    ~(publicPort \in activeServers \/ publicPort \in activeUdpServers)

\* the response of POST /api/ports/allocate in the current state: 200 with the
\* port, 500 when createPortMapping returns false, 400 when no port is left
allocateReply(localPort, preferredPort, protocol) ==
    LET publicPort == allocatedPort(preferredPort)
    IN  IF publicPort # 0 /\ createPortMappingOk(publicPort)
        THEN [success |-> TRUE, publicPort |-> publicPort]
        ELSE [success |-> FALSE, publicPort |-> 0]

\* POST /api/ports/allocate with createPortMapping, where tcpBinds / udpBinds say
\* whether the operating system lets the new TCP / UDP socket have the port.  When it
\* does not, the socket's 'error' handler runs after createPortMapping has returned
\* and sets a local variable nobody reads any more; the socket never listens.  A
\* request that is answered 400 or 500 changes nothing.
allocatePort(localPort, preferredPort, protocol, tcpBinds, udpBinds) ==
    LET publicPort == allocatedPort(preferredPort) IN
    /\ allocateReply(localPort, preferredPort, protocol).success
    /\ portProtocols' = MapSet(portProtocols, publicPort, protocol)
    /\ tcpPending' = IF protocol \in {"tcp", "both"} /\ tcpBinds
                     THEN tcpPending \cup {publicPort} ELSE tcpPending
    /\ udpPending' = IF protocol \in {"udp", "both"} /\ udpBinds
                     THEN udpPending \cup {publicPort} ELSE udpPending
    /\ portMappings' = MapSet(portMappings, localPort, publicPort)
    /\ waitingQueue' = IF publicPort \in DOMAIN waitingQueue THEN waitingQueue
                       ELSE MapSet(waitingQueue, publicPort, << >>)
    /\ idleLocalSockets' = IF publicPort \in DOMAIN idleLocalSockets THEN idleLocalSockets
                           ELSE MapSet(idleLocalSockets, publicPort, << >>)
    /\ UNCHANGED <<connectionId, activeConnections, statsActive, activeServers,
                   activeUdpServers, conn, sess, nextSess, fwd, config, wire, udpFlow, codec>>

\* POST /api/ports/allocate sent by anyone
AllocateWith(localPort, preferredPort, protocol, tcpBinds, udpBinds) ==
    /\ allocatePort(localPort, preferredPort, protocol, tcpBinds, udpBinds)
    /\ UNCHANGED agent

\* POST /api/ports/allocate when every socket it opens gets its port
Allocate(localPort, preferredPort, protocol) ==
    AllocateWith(localPort, preferredPort, protocol, TRUE, TRUE)

\* the callback of externalServer.listen(publicPort, ...)
TcpListenCallback(p) ==
    /\ p \in tcpPending
    /\ tcpPending' = tcpPending \ {p}
    /\ activeServers' = activeServers \cup {p}
    /\ UNCHANGED <<connectionId, waitingQueue, idleLocalSockets, activeConnections,
                   statsActive, activeUdpServers, udpPending, portMappings, portProtocols,
                   conn, sess, nextSess, fwd, config, wire, udpFlow, agent, codec>>

\* udpServer.on('listening', ...)
UdpListenCallback(p) ==
    /\ p \in udpPending
    /\ udpPending' = udpPending \ {p}
    /\ activeUdpServers' = activeUdpServers \cup {p}
    /\ UNCHANGED <<connectionId, waitingQueue, idleLocalSockets, activeConnections,
                   statsActive, activeServers, tcpPending, portMappings, portProtocols,
                   conn, sess, nextSess, fwd, config, wire, udpFlow, agent, codec>>

\* DELETE /api/ports/mapping/:localPort with removePortMapping
Release(localPort) ==
    /\ localPort \in DOMAIN portMappings
    /\ LET publicPort == portMappings[localPort]
           queue == Elems(GetArr(waitingQueue, publicPort))
           sockets == Elems(GetArr(idleLocalSockets, publicPort))
       IN  /\ activeServers' = activeServers \ {publicPort}
           /\ activeUdpServers' = activeUdpServers \ {publicPort}
           /\ conn' = [c \in ConnIds |->
                         IF c \in queue /\ ~Destroyed(conn[c].sock)
                         THEN [conn[c] EXCEPT !.sock = "destroyed"] ELSE conn[c]]
           /\ sess' = [s \in SessIds |->
                         IF s \in sockets /\ ~Destroyed(sess[s].sock)
                         THEN [sess[s] EXCEPT !.sock = "destroyed"] ELSE sess[s]]
           /\ portMappings' = MapDel(portMappings, localPort)
           /\ waitingQueue' = MapDel(waitingQueue, publicPort)
           /\ idleLocalSockets' = MapDel(idleLocalSockets, publicPort)
           /\ portProtocols' = MapDel(portProtocols, publicPort)
    /\ UNCHANGED <<connectionId, activeConnections, statsActive, tcpPending, udpPending,
                   nextSess, fwd, config, wire, udpFlow, agent, codec>>

\* ------------------------------------------------------------ TCP side
\* handleExternalConnection: a TCP connection accepted by the listener of publicPort
handleExternalConnection(publicPort) ==
    /\ publicPort \in activeServers
    /\ LET connId == connectionId + 1
           cn1 == [conn EXCEPT ![connId] =
                     [kind |-> "tcp", port |-> publicPort, sock |-> "open",
                      sess |-> 0, active |-> FALSE]]
           wq1 == MapSet(waitingQueue, publicPort,
                         Append(GetArr(waitingQueue, publicPort), connId))
           r == tryMatchConnections(cn1, wq1, idleLocalSockets, publicPort)
       IN  /\ connectionId' = connId
           /\ conn' = r.conn
           /\ waitingQueue' = r.wq
           /\ idleLocalSockets' = r.idle
           /\ activeConnections' = activeConnections \cup r.matched
           /\ statsActive' = statsActive + Cardinality(r.matched)
    /\ UNCHANGED <<activeServers, activeUdpServers, tcpPending, udpPending, portMappings,
                   portProtocols, sess, nextSess, fwd, config, wire, udpFlow, agent, codec>>

\* the 60 s setTimeout of handleExternalConnection.  The timer is pending from the
\* accept until the socket's 'close' (clearTimeout); when it fires and connId is no
\* longer in the queue it changes nothing, so the action is the firing that finds it.
PairTimeout(c) ==
    /\ conn[c].kind = "tcp"
    /\ conn[c].sock # "closed"
    /\ LET currentQueue == GetArr(waitingQueue, conn[c].port)
       IN  /\ c \in Elems(currentQueue)
           /\ waitingQueue' = MapSet(waitingQueue, conn[c].port,
                                     RemoveFirst(currentQueue, c))
           /\ conn' = [conn EXCEPT ![c].sock = IF Destroyed(@) THEN @ ELSE "ended"]
    /\ UNCHANGED <<connectionId, idleLocalSockets, activeConnections, statsActive,
                   activeServers, activeUdpServers, tcpPending, udpPending, portMappings,
                   portProtocols, sess, nextSess, fwd, config, wire, udpFlow, agent, codec>>

\* the end user closes or resets its connection: externalSocket.destroyed becomes
\* true, the 'close' event is still to come.  (A socket the pairing timer has ended is
\* out of the queue and unpaired: its later 'close' finds nothing to do and is left out.)
ExternalDestroy(c) ==
    /\ conn[c].kind = "tcp"
    /\ conn[c].sock = "open"
    /\ conn' = [conn EXCEPT ![c].sock = "destroyed"]
    /\ UNCHANGED <<connectionId, waitingQueue, idleLocalSockets, activeConnections,
                   statsActive, activeServers, activeUdpServers, tcpPending, udpPending,
                   portMappings, portProtocols, sess, nextSess, fwd, config, wire, udpFlow, agent, codec>>

\* cleanupConnection of establishConnection for connId c: the part on the Gateway's
\* tables; the two destroy() calls are applied by the callers below
\* cleanupConnection without `if (!isConnectionActive) return`: every close and error
\* event counts down
cleanupStatsAlways(c) == statsActive - 1

cleanupStats(c) ==
    IF conn[c].active /\ c \in activeConnections THEN statsActive - 1 ELSE statsActive

cleanupActive(c) ==
    IF conn[c].active THEN activeConnections \ {c} ELSE activeConnections

\* 'close' of an external socket: the close handler of handleExternalConnection and,
\* when paired, the one of establishConnection
ExternalCloseEvent(c) ==
    /\ conn[c].kind = "tcp"
    /\ conn[c].sock = "destroyed"
    /\ LET currentQueue == GetArr(waitingQueue, conn[c].port)
           s == conn[c].sess
       IN  /\ waitingQueue' = IF c \in Elems(currentQueue)
                              THEN MapSet(waitingQueue, conn[c].port,
                                          RemoveFirst(currentQueue, c))
                              ELSE waitingQueue
           /\ conn' = [conn EXCEPT ![c].sock = "closed", ![c].active = FALSE]
           /\ activeConnections' = cleanupActive(c)
           /\ statsActive' = cleanupStats(c)
           /\ sess' = IF conn[c].active /\ ~Destroyed(sess[s].sock)
                      THEN [sess EXCEPT ![s].sock = "destroyed"] ELSE sess
    /\ UNCHANGED <<connectionId, idleLocalSockets, activeServers, activeUdpServers,
                   tcpPending, udpPending, portMappings, portProtocols, nextSess, fwd, config, wire, udpFlow, agent, codec>>

\* ------------------------------------------------------------ sessions
\* the connection callback of localProxyServer: an Agent dialled the data-plane port
SessionAccept ==
    /\ nextSess' = nextSess + 1
    /\ sess' = [sess EXCEPT ![nextSess + 1] =
                  [sock |-> "open", headerReceived |-> FALSE, targetPort |-> 0]]
    /\ UNCHANGED <<connectionId, waitingQueue, idleLocalSockets, activeConnections,
                   statsActive, activeServers, activeUdpServers, tcpPending, udpPending,
                   portMappings, portProtocols, conn, fwd, config, wire, udpFlow, agent, codec>>

\* the data handler without its headerReceived flag
headerPendingAlways(s) == sess[s].sock = "open"

\* the test `!headerReceived && data.length >= 4` of localProxyServer's data handler,
\* for a chunk of at least 4 bytes
headerPending(s) == ~sess[s].headerReceived

\* the test that lets a session into the pool: activeServers.has(targetPort)
headerPortKnown(port) == port \in activeServers

\* the branch `!headerReceived && data.length >= 4` of localProxyServer's data handler
\* on the Gateway's tables, for a chunk whose first 4 bytes read as `port`
readTargetPort(s, port) ==
    /\ sess[s].sock = "open"
    /\ headerPending(s)
    /\ IF ~headerPortKnown(port)
       THEN /\ sess' = [sess EXCEPT ![s].headerReceived = TRUE, ![s].targetPort = port,
                                    ![s].sock = "destroyed"]
            /\ UNCHANGED <<conn, waitingQueue, idleLocalSockets, activeConnections,
                           statsActive>>
       ELSE LET idle1 == MapSet(idleLocalSockets, port,
                                Append(GetArr(idleLocalSockets, port), s))
                r == tryMatchConnections(conn, waitingQueue, idle1, port)
            IN  /\ sess' = [sess EXCEPT ![s].headerReceived = TRUE, ![s].targetPort = port]
                /\ conn' = r.conn
                /\ waitingQueue' = r.wq
                /\ idleLocalSockets' = r.idle
                /\ activeConnections' = activeConnections \cup r.matched
                /\ statsActive' = statsActive + Cardinality(r.matched)
    /\ UNCHANGED <<connectionId, activeServers, activeUdpServers, tcpPending, udpPending,
                   portMappings, portProtocols, nextSess, fwd, config, udpFlow, agent, codec>>

\* localSocket.on('data') of localProxyServer for a first chunk of >= 4 bytes whose
\* first 4 bytes read as `port`
SessionHeader(s, port) ==
    /\ readTargetPort(s, port)
    /\ UNCHANGED wire

\* data.readUInt32BE(0)
readUInt32BE(data) == ((data[1] * 256 + data[2]) * 256 + data[3]) * 256 + data[4]

\* localSocket.on('data') of localProxyServer for the next chunk of the session whose
\* bytes are followed: a chunk shorter than 4 bytes before the header is read, and
\* any chunk after it, leaves the Gateway's tables alone
SessionData(s) ==
    /\ wire.s = s
    /\ wire.chunks # << >>
    /\ sess[s].sock = "open"
    /\ wire' = [wire EXCEPT !.chunks = Tail(@)]
    /\ LET data == Head(wire.chunks)
       IN  IF headerPending(s) /\ Len(data) >= 4
           THEN readTargetPort(s, readUInt32BE(data))
           ELSE UNCHANGED <<connectionId, waitingQueue, idleLocalSockets,
                            activeConnections, statsActive, activeServers,
                            activeUdpServers, tcpPending, udpPending, portMappings,
                            portProtocols, conn, sess, nextSess, fwd, config, udpFlow, agent, codec>>

\* the 10 s setTimeout of localProxyServer: `if (!headerReceived) localSocket.destroy()`.
\* It is cleared by 'close' and changes nothing once the header was read.
SessionHeaderTimeout(s) ==
    /\ sess[s].sock = "open"
    /\ ~sess[s].headerReceived
    /\ sess' = [sess EXCEPT ![s].sock = "destroyed"]
    /\ UNCHANGED <<connectionId, waitingQueue, idleLocalSockets, activeConnections,
                   statsActive, activeServers, activeUdpServers, tcpPending, udpPending,
                   portMappings, portProtocols, conn, nextSess, fwd, config, wire, udpFlow, agent, codec>>

\* the Agent closes the session or the connection breaks: localSocket.destroyed
\* becomes true, the 'close' event is still to come
SessionDestroy(s) ==
    /\ sess[s].sock = "open"
    /\ sess' = [sess EXCEPT ![s].sock = "destroyed"]
    /\ UNCHANGED <<connectionId, waitingQueue, idleLocalSockets, activeConnections,
                   statsActive, activeServers, activeUdpServers, tcpPending, udpPending,
                   portMappings, portProtocols, conn, nextSess, fwd, config, wire, udpFlow, agent, codec>>

\* the connIds whose establishConnection registered handlers on session s and whose
\* isConnectionActive is still true
PairsOf(s) == {c \in ConnIds : conn[c].kind = "tcp" /\ conn[c].sess = s /\ conn[c].active}

\* 'close' of a session socket: onLocalClose of localProxyServer (remove from the
\* pool of targetPort), clearTimeout, and cleanupConnection of every pair it is in
SessionCloseEvent(s) ==
    /\ sess[s].sock = "destroyed"
    /\ LET tp == sess[s].targetPort
           sockets == GetArr(idleLocalSockets, tp)
           P == PairsOf(s)
       IN  /\ idleLocalSockets' = IF tp # 0 /\ s \in Elems(sockets)
                                  THEN MapSet(idleLocalSockets, tp, RemoveFirst(sockets, s))
                                  ELSE idleLocalSockets
           /\ sess' = [sess EXCEPT ![s].sock = "closed"]
           /\ conn' = [c \in ConnIds |->
                         IF c \in P
                         THEN [conn[c] EXCEPT !.active = FALSE,
                                              !.sock = IF Destroyed(@) THEN @
                                                       ELSE "destroyed"]
                         ELSE conn[c]]
           /\ activeConnections' = activeConnections \ P
           /\ statsActive' = statsActive - Cardinality(P \cap activeConnections)
    /\ UNCHANGED <<connectionId, waitingQueue, activeServers, activeUdpServers,
                   tcpPending, udpPending, portMappings, portProtocols, nextSess, fwd, config, wire, udpFlow, agent, codec>>

\* ------------------------------------------------------------ UDP dispatch
\* the destroyed sessions at the head of the pool, each of which makes
\* handleUdpMessage shift it, store the array and call itself again
RECURSIVE DeadPrefix(_)
DeadPrefix(sockets) ==
    IF sockets # << >> /\ Destroyed(sess[Head(sockets)].sock)
    THEN 1 + DeadPrefix(Tail(sockets)) ELSE 0

\* the pool a UDP dispatch returns its session to: idleLocalSockets.get(publicPort)
udpReturnPool(u) == conn[u].port

\* handleUdpMessage reading sockets[0] and leaving the session in the pool
udpTakenPeek(rest) == rest

\* the pool after `const localSocket = sockets.shift()` took the live session
udpTaken(rest) == Tail(rest)

\* the connection ids one call of handleUdpMessage(.., publicPort, ..) takes
udpIds(publicPort) == DeadPrefix(GetArr(idleLocalSockets, publicPort)) + 1

\* handleUdpMessage registering the connection before it looks for a session
udpDroppedRegistered(connId) == activeConnections \cup {connId}

\* activeConnections after handleUdpMessage found no session and returned: connId
\* was counted but never registered
udpDropped(connId) == activeConnections

\* handleUdpMessage(msg, rinfo, publicPort, localPort) on the Gateway's tables
dispatchUdp(publicPort) ==
    /\ publicPort \in activeUdpServers
    /\ LET sockets == GetArr(idleLocalSockets, publicPort)
           dead == DeadPrefix(sockets)
           rest == SubSeq(sockets, dead + 1, Len(sockets))
           connId == connectionId + dead + 1
       IN  /\ connectionId' = connId
           /\ IF rest = << >>
              THEN \* no session: the datagram is dropped
                   /\ idleLocalSockets' = IF dead > 0
                                          THEN MapSet(idleLocalSockets, publicPort, << >>)
                                          ELSE idleLocalSockets
                   /\ activeConnections' = udpDropped(connId)
                   /\ UNCHANGED <<conn, statsActive>>
              ELSE /\ idleLocalSockets' = MapSet(idleLocalSockets, publicPort, udpTaken(rest))
                   /\ conn' = [conn EXCEPT ![connId] =
                                 [kind |-> "udp", port |-> publicPort, sock |-> "none",
                                  sess |-> Head(rest), active |-> TRUE]]
                   /\ activeConnections' = activeConnections \cup {connId}
                   /\ statsActive' = statsActive + 1
    /\ UNCHANGED <<waitingQueue, activeServers, activeUdpServers, tcpPending, udpPending,
                   portMappings, portProtocols, sess, nextSess, fwd, config, wire, agent, codec>>

\* handleUdpMessage(msg, rinfo, publicPort, localPort): a datagram of an end user
handleUdpMessage(publicPort) ==
    /\ dispatchUdp(publicPort)
    /\ UNCHANGED udpFlow

\* the dispatches whose responseHandler is registered on session s
HandlersOf(s) == {u \in ConnIds : conn[u].kind = "udp" /\ conn[u].sess = s /\ conn[u].active}

RECURSIVE Ascending(_)
Ascending(S) ==
    IF S = {} THEN << >>
    ELSE LET m == CHOOSE x \in S : \A y \in S : x <= y
         IN  <<m>> \o Ascending(S \ {m})

\* currentSockets.push(localSocket); idleLocalSockets.set(...) for each dispatch of us
RECURSIVE ReturnToPool(_, _, _)
ReturnToPool(idle, us, s) ==
    IF us = << >> THEN idle
    ELSE LET port == udpReturnPool(Head(us))
         IN  ReturnToPool(MapSet(idle, port, Append(GetArr(idle, port), s)), Tail(us), s)

\* 'data' on a session that carries responseHandlers of handleUdpMessage, for a chunk
\* that passes their test data.length >= 8 + data.readUInt16BE(6) (a chunk that fails
\* it changes nothing).  Each handler removes its connection record and itself and
\* pushes the session back; the handlers run in the order they were registered.
respondUdp(s) ==
    /\ sess[s].sock = "open"
    /\ LET H == HandlersOf(s)
       IN  /\ H # {}
           /\ conn' = [c \in ConnIds |->
                         IF c \in H THEN [conn[c] EXCEPT !.active = FALSE] ELSE conn[c]]
           /\ activeConnections' = activeConnections \ H
           /\ statsActive' = statsActive - Cardinality(H)
           /\ idleLocalSockets' = ReturnToPool(idleLocalSockets, Ascending(H), s)
    /\ UNCHANGED <<connectionId, waitingQueue, activeServers, activeUdpServers, tcpPending,
                   udpPending, portMappings, portProtocols, sess, nextSess, fwd, config, wire, agent, codec>>

UdpResponse(s) ==
    /\ respondUdp(s)
    /\ UNCHANGED udpFlow

\* the 30 s setTimeout of handleUdpMessage: `if (activeConnections.has(connId))`; the
\* firing that finds connId gone changes nothing
UdpTimeout(u) ==
    /\ conn[u].kind = "udp"
    /\ u \in activeConnections
    /\ activeConnections' = activeConnections \ {u}
    /\ statsActive' = statsActive - 1
    /\ conn' = [conn EXCEPT ![u].active = FALSE]
    /\ idleLocalSockets' = ReturnToPool(idleLocalSockets, <<u>>, conn[u].sess)
    /\ UNCHANGED <<connectionId, waitingQueue, activeServers, activeUdpServers,
                   tcpPending, udpPending, portMappings, portProtocols, sess, nextSess, fwd, config, wire, udpFlow, agent, codec>>

\* ------------------------------------------------------------ Gateway
\* Every callback of the Gateway; budget bounds the ids handed out.
GatewayNext(budget) ==
    \/ \E r \in Requests : Allocate(r.localPort, r.preferredPort, r.protocol)
    \/ \E p \in PublicPorts : TcpListenCallback(p)
    \/ \E p \in PublicPorts : UdpListenCallback(p)
    \/ \E l \in LocalPorts : Release(l)
    \/ \E p \in PublicPorts :
          connectionId + nextSess < budget /\ handleExternalConnection(p)
    \/ \E c \in ConnIds : PairTimeout(c)
    \/ \E c \in ConnIds : ExternalDestroy(c)
    \/ \E c \in ConnIds : ExternalCloseEvent(c)
    \/ connectionId + nextSess < budget /\ SessionAccept
    \/ \E s \in SessIds, p \in PublicPorts : SessionHeader(s, p)
    \/ \E s \in SessIds : SessionHeaderTimeout(s)
    \/ \E s \in SessIds : SessionDestroy(s)
    \/ \E s \in SessIds : SessionCloseEvent(s)
    \/ \E p \in PublicPorts :
          connectionId + nextSess + udpIds(p) <= budget /\ handleUdpMessage(p)
    \/ \E s \in SessIds : UdpResponse(s)
    \/ \E u \in ConnIds : UdpTimeout(u)

Next == GatewayNext(MaxObjects)

\* The whole Gateway from its start.
Spec == Init /\ [][Next]_vars

\* ---- the bindings come and go, few connections ----
NextAlloc ==
    \/ \E r \in Requests : Allocate(r.localPort, r.preferredPort, r.protocol)
    \/ \E p \in PublicPorts : TcpListenCallback(p)
    \/ \E p \in PublicPorts : UdpListenCallback(p)
    \/ \E l \in LocalPorts : Release(l)
    \/ \E p \in PublicPorts :
          connectionId + nextSess < AllocMaxObjects /\ handleExternalConnection(p)
    \/ connectionId + nextSess < AllocMaxObjects /\ SessionAccept
    \/ \E s \in SessIds, p \in PublicPorts : SessionHeader(s, p)
    \/ \E s \in SessIds : SessionDestroy(s)
    \/ \E s \in SessIds : SessionCloseEvent(s)

SpecAlloc == Init /\ [][NextAlloc]_vars

\* ---- the port registry under any requests and configurations ----
\* port 3 is covered by no configuration
RegRequests ==
    [localPort : LocalPorts, preferredPort : {0, 1, 2, 3}, protocol : Protocols]

\* config.json files: the ports 1 and 2 as one range, as two ranges in descending
\* order, as a range followed by a smaller singleton, with a disabled range, and
\* with the web port inside the range
Configs ==
    {defaultConfig,
     [defaultConfig EXCEPT !.portRanges =
         << [startPort |-> 2, endPort |-> 2, enabled |-> TRUE],
            [startPort |-> 1, endPort |-> 1, enabled |-> TRUE] >>],
     [defaultConfig EXCEPT !.portRanges =
         << [startPort |-> 2, endPort |-> 2, enabled |-> TRUE] >>,
                           !.specificPorts = << [port |-> 1, enabled |-> TRUE] >>],
     [defaultConfig EXCEPT !.portRanges =
         << [startPort |-> 1, endPort |-> 1, enabled |-> FALSE] >>,
                           !.specificPorts = << [port |-> 2, enabled |-> TRUE] >>],
     [defaultConfig EXCEPT !.server.webPort = 1]}

InitReg ==
    /\ connectionId = 0
    /\ waitingQueue = EmptyMap
    /\ idleLocalSockets = EmptyMap
    /\ activeConnections = {}
    /\ statsActive = 0
    /\ activeServers = {}
    /\ activeUdpServers = {}
    /\ tcpPending = {}
    /\ udpPending = {}
    /\ portMappings = EmptyMap
    /\ portProtocols = EmptyMap
    /\ conn = [c \in ConnIds |-> NoConn]
    /\ sess = [s \in SessIds |-> NoSess]
    /\ nextSess = 0
    /\ fwd = FwdIdle
    /\ config \in Configs
    /\ udpFlow = NoUdp
    /\ agent = NoAgent
    /\ codec = NoCodec
    /\ wire = NoWire

NextReg ==
    \/ \E r \in RegRequests : Allocate(r.localPort, r.preferredPort, r.protocol)
    \/ \E p \in PublicPorts : TcpListenCallback(p)
    \/ \E p \in PublicPorts : UdpListenCallback(p)
    \/ \E l \in LocalPorts : Release(l)

SpecReg == InitReg /\ [][NextReg]_vars

\* ---- the port registry when a socket may be refused its port ----
NextBind ==
    \/ \E r \in RegRequests, tcpBinds \in BOOLEAN, udpBinds \in BOOLEAN :
          AllocateWith(r.localPort, r.preferredPort, r.protocol, tcpBinds, udpBinds)
    \/ \E p \in PublicPorts : TcpListenCallback(p)
    \/ \E p \in PublicPorts : UdpListenCallback(p)
    \/ \E l \in LocalPorts : Release(l)

SpecBind == InitReg /\ [][NextBind]_vars

\* ---- the pools of two bound ports ----
\* The Gateway after the allocate requests {localPort 1, preferred 1, both} and
\* {localPort 2, preferred 2, tcp} and the listen callbacks they start.
InitPool ==
    /\ connectionId = 0
    /\ waitingQueue = (1 :> << >>) @@ (2 :> << >>)
    /\ idleLocalSockets = (1 :> << >>) @@ (2 :> << >>)
    /\ activeConnections = {}
    /\ statsActive = 0
    /\ tcpPending = {}
    /\ udpPending = {}
    /\ portMappings = (1 :> 1) @@ (2 :> 2)
    /\ portProtocols = (1 :> "both") @@ (2 :> "tcp")
    /\ activeServers = {1, 2}
    /\ activeUdpServers = {1}
    /\ conn = [c \in ConnIds |-> NoConn]
    /\ sess = [s \in SessIds |-> NoSess]
    /\ nextSess = 0
    /\ fwd = FwdIdle
    /\ config = defaultConfig
    /\ udpFlow = NoUdp
    /\ agent = NoAgent
    /\ codec = NoCodec
    /\ wire = NoWire

NextPool ==
    \/ \E l \in LocalPorts : Release(l)
    \/ \E p \in PublicPorts :
          connectionId + nextSess < MaxObjects /\ handleExternalConnection(p)
    \/ \E c \in ConnIds : PairTimeout(c)
    \/ \E c \in ConnIds : ExternalDestroy(c)
    \/ \E c \in ConnIds : ExternalCloseEvent(c)
    \/ connectionId + nextSess < MaxObjects /\ SessionAccept
    \/ \E s \in SessIds, p \in PublicPorts : SessionHeader(s, p)
    \/ \E s \in SessIds : SessionHeaderTimeout(s)
    \/ \E s \in SessIds : SessionDestroy(s)
    \/ \E s \in SessIds : SessionCloseEvent(s)
    \/ \E p \in PublicPorts :
          connectionId + nextSess + udpIds(p) <= MaxObjects /\ handleUdpMessage(p)
    \/ \E s \in SessIds : UdpResponse(s)
    \/ \E u \in ConnIds : UdpTimeout(u)

SpecPool == InitPool /\ [][NextPool]_vars

\* ---- the header of one session, byte by byte ----
\* the chunks of stream when it is cut after the positions of cuts
RECURSIVE SplitAt(_, _, _, _)
SplitAt(stream, cuts, from, i) ==
    IF i > Len(stream) THEN << >>
    ELSE IF i \in cuts \/ i = Len(stream)
    THEN <<SubSeq(stream, from, i)>> \o SplitAt(stream, cuts, i + 1, i + 1)
    ELSE SplitAt(stream, cuts, from, i + 1)

\* what an Agent may write on a new session (proxySocket.write(header), then
\* payload), of 4 to MaxStream bytes
Streams == UNION {[1..n -> Bytes] : n \in 4..MaxStream}

\* The Gateway of InitPool with one session accepted; its stream reaches the data
\* handler cut into chunks in any of the ways TCP may deliver it.
InitHdr ==
    /\ connectionId = 0
    /\ waitingQueue = (1 :> << >>) @@ (2 :> << >>)
    /\ idleLocalSockets = (1 :> << >>) @@ (2 :> << >>)
    /\ activeConnections = {}
    /\ statsActive = 0
    /\ tcpPending = {}
    /\ udpPending = {}
    /\ portMappings = (1 :> 1) @@ (2 :> 2)
    /\ portProtocols = (1 :> "both") @@ (2 :> "tcp")
    /\ activeServers = {1, 2}
    /\ activeUdpServers = {1}
    /\ conn = [c \in ConnIds |-> NoConn]
    /\ sess = [s \in SessIds |->
                 IF s = 1 THEN [sock |-> "open", headerReceived |-> FALSE, targetPort |-> 0]
                 ELSE NoSess]
    /\ nextSess = 1
    /\ fwd = FwdIdle
    /\ config = defaultConfig
    /\ udpFlow = NoUdp
    /\ agent = NoAgent
    /\ codec = NoCodec
    /\ \E stream \in Streams, cuts \in SUBSET (1..(MaxStream - 1)) :
          wire = [s |-> 1, stream |-> stream, chunks |-> SplitAt(stream, cuts, 1, 1)]

NextHdr ==
    \/ \E s \in SessIds : SessionData(s)
    \/ \E s \in SessIds : SessionHeaderTimeout(s)
    \/ \E s \in SessIds : SessionCloseEvent(s)

SpecHdr == InitHdr /\ [][NextHdr]_vars

\* ------------------------------------------------------------ one pair, end to end
\* The Gateway right after establishConnection(1, 1) on port 1 (protocol both) or on
\* port 2 (protocol tcp); the Agent's session is connected and has written its header
\* (the state its data handler waits in).
InitFwd ==
    /\ connectionId = 1
    /\ waitingQueue = (1 :> << >>) @@ (2 :> << >>)
    /\ idleLocalSockets = (1 :> << >>) @@ (2 :> << >>)
    /\ activeConnections = {1}
    /\ statsActive = 1
    /\ tcpPending = {}
    /\ udpPending = {}
    /\ portMappings = (1 :> 1) @@ (2 :> 2)
    /\ portProtocols = (1 :> "both") @@ (2 :> "tcp")
    /\ activeServers = {1, 2}
    /\ activeUdpServers = {1}
    /\ \E p \in {1, 2} :
          /\ conn = [c \in ConnIds |->
                       IF c = 1 THEN [kind |-> "tcp", port |-> p, sock |-> "open",
                                      sess |-> 1, active |-> TRUE]
                       ELSE NoConn]
          /\ sess = [s \in SessIds |->
                       IF s = 1 THEN [sock |-> "open", headerReceived |-> TRUE,
                                      targetPort |-> p]
                       ELSE NoSess]
    /\ nextSess = 1
    /\ fwd = [FwdIdle EXCEPT !.on = TRUE, !.c = 1, !.s = 1]
    /\ config = defaultConfig
    /\ udpFlow = NoUdp
    /\ agent = NoAgent
    /\ codec = NoCodec
    /\ wire = NoWire

\* the end user writes its next chunk
ExtSend(udp) ==
    /\ fwd.on
    /\ Len(fwd.sent) < MaxChunks
    /\ LET d == [n |-> Len(fwd.sent) + 1, udp |-> udp]
       IN  fwd' = [fwd EXCEPT !.sent = Append(@, d), !.extToGw = Append(@, d)]
    /\ UNCHANGED gwVars

\* createDataForwarder of establishConnection: `isConnectionActive && !targetSocket.destroyed`
forwarderOpen(c, targetSock) == conn[c].active /\ ~Destroyed(targetSock)

\* externalSocket.on('data', forwardExternalToLocal)
ForwardExternalToLocal ==
    /\ fwd.on
    /\ fwd.extToGw # << >>
    /\ fwd' = [fwd EXCEPT !.extToGw = Tail(@),
                          !.gwToAgent = IF forwarderOpen(fwd.c, sess[fwd.s].sock)
                                        THEN Append(@, Head(fwd.extToGw)) ELSE @]
    /\ UNCHANGED gwVars

\* proxySocket.on('data') of createMappingConnection, and forwardProxyToLocal once the
\* connect handler of localSocket has registered it.  What the handler of lines
\* 629-844 does with a chunk:
\*   "udp"   the chunk passes the envelope test: sent as a datagram, then `return`
\*   "dial"  !connectionRecord.localConnected: net.connect to the local service
\*   "none"  nothing
agentOuter(d) ==
    IF d.udp THEN "udp"
    ELSE IF ~fwd.localConnected THEN "dial"
    ELSE "none"

AgentData ==
    /\ fwd.on
    /\ fwd.gwToAgent # << >>
    /\ LET d == Head(fwd.gwToAgent)
           outer == agentOuter(d)
       IN  fwd' = [fwd EXCEPT
                     !.gwToAgent = Tail(@),
                     !.localConnected = @ \/ outer = "dial",
                     !.local = IF outer = "dial" THEN "dialing" ELSE @,
                     !.firstData = IF outer = "dial" THEN <<d>> ELSE @,
                     \* localUdpClient.send(udpData, mapping.localPort, ..)
                     !.udpOut = IF outer = "udp" THEN Append(@, d) ELSE @,
                     \* forwardProxyToLocal, registered from the connect handler on
                     !.localIn = IF fwd.local = "connected" THEN Append(@, d) ELSE @]
    /\ UNCHANGED gwVars

\* localSocket.on('connect'): write the first chunk, register the two forwarders
LocalConnect ==
    /\ fwd.on
    /\ fwd.local = "dialing"
    /\ fwd' = [fwd EXCEPT !.local = "connected", !.localIn = @ \o fwd.firstData]
    /\ UNCHANGED gwVars

\* the local service writes its next chunk
LocalSend ==
    /\ fwd.on
    /\ fwd.local = "connected"
    /\ Len(fwd.replied) < MaxChunks
    /\ LET d == [n |-> Len(fwd.replied) + 1, udp |-> FALSE]
       IN  fwd' = [fwd EXCEPT !.replied = Append(@, d), !.localToAgent = Append(@, d)]
    /\ UNCHANGED gwVars

\* localSocket.on('data', forwardLocalToProxy)
ForwardLocalToProxy ==
    /\ fwd.on
    /\ fwd.localToAgent # << >>
    /\ fwd' = [fwd EXCEPT !.localToAgent = Tail(@),
                          !.agentToGw = Append(@, Head(fwd.localToAgent))]
    /\ UNCHANGED gwVars

\* localSocket.on('data', forwardLocalToExternal) of establishConnection
ForwardLocalToExternal ==
    /\ fwd.on
    /\ fwd.agentToGw # << >>
    /\ fwd' = [fwd EXCEPT !.agentToGw = Tail(@),
                          !.extIn = IF forwarderOpen(fwd.c, conn[fwd.c].sock)
                                    THEN Append(@, Head(fwd.agentToGw)) ELSE @]
    /\ UNCHANGED gwVars

NextFwd ==
    \/ \E udp \in BOOLEAN : ExtSend(udp)
    \/ ForwardExternalToLocal
    \/ AgentData
    \/ LocalConnect
    \/ LocalSend
    \/ ForwardLocalToProxy
    \/ ForwardLocalToExternal

SpecFwd == InitFwd /\ [][NextFwd]_vars

\* ============================================================ claims
InQueue(c) == c \in Elems(GetArr(waitingQueue, conn[c].port))
InPool(s, p) == s \in Elems(GetArr(idleLocalSockets, p))
\* the session serves a pair or a UDP dispatch
Engaged(cn, s) == \E c \in ConnIds : cn[c].sess = s /\ cn[c].active
\* the port has a binding: an allocation succeeded for it and it was not released
Bound(p) == p \in DOMAIN portProtocols \/ p \in RanOf(portMappings)
\* the data handler of session s reads the header in this step
ReadsHeader(s) == ~sess[s].headerReceived /\ sess'[s].headerReceived

\* C1: an accepted connection that is still open and not paired is in the pending
\* queue of its port: it leaves the queue only by being paired, by its pairing timer
\* (which closes it) or by its own close.
C1_OpenUnpairedIsQueued ==
    \A c \in ConnIds :
        (conn[c].kind = "tcp" /\ conn[c].sock = "open" /\ conn[c].sess = 0) => InQueue(c)

\* C2: pairing is FIFO per port: when B is paired, every connection enqueued before B
\* on the same port has been paired, timed out or closed.
C2_PairedInEnqueueOrder ==
    \A a \in ConnIds, b \in ConnIds :
        (/\ a < b
         /\ conn[a].kind = "tcp" /\ conn[b].kind = "tcp"
         /\ conn[a].port = conn[b].port
         /\ conn[b].sess # 0)
        => ~(conn[a].sock = "open" /\ conn[a].sess = 0)

\* C3: a step that takes a live connection out of the pending queue pairs it, and a
\* step that takes a live session out of the idle pool pairs it or dispatches a
\* datagram on it: the live one of a dequeued couple is never discarded with the
\* closed one.
C3_LiveOneIsKept ==
    [][/\ \A c \in ConnIds :
            (/\ conn[c].kind = "tcp" /\ conn[c].sock = "open" /\ InQueue(c)
             /\ c \notin Elems(GetArr(waitingQueue', conn[c].port))
             /\ conn'[c].sock = "open")
            => conn'[c].sess # 0
       /\ \A s \in SessIds, p \in PublicPorts :
            (/\ sess[s].sock = "open" /\ InPool(s, p)
             /\ s \notin Elems(GetArr(idleLocalSockets', p))
             /\ sess'[s].sock = "open")
            => Engaged(conn', s)]_vars

\* C4: between handlers no port has both a pending connection and an idle session.
C4_NeverBothNonEmpty ==
    \A p \in PublicPorts :
        GetArr(waitingQueue, p) = << >> \/ GetArr(idleLocalSockets, p) = << >>

RECURSIVE IsPrefix(_, _)
IsPrefix(a, b) ==
    \/ a = << >>
    \/ /\ b # << >>
       /\ Head(a) = Head(b)
       /\ IsPrefix(Tail(a), Tail(b))

\* C5: over a paired connection the local service receives the end user's chunks, and
\* the end user the local service's, complete and in order: what has arrived is a
\* prefix of what was sent, and once nothing is in flight and the Agent's local
\* socket is connected it is all of it.
C5_BytesEndToEnd ==
    fwd.on =>
        /\ IsPrefix(fwd.localIn, fwd.sent)
        /\ IsPrefix(fwd.extIn, fwd.replied)
        /\ (fwd.extToGw = << >> /\ fwd.gwToAgent = << >> /\ fwd.local = "connected")
              => fwd.localIn = fwd.sent
        /\ (fwd.localToAgent = << >> /\ fwd.agentToGw = << >>) => fwd.extIn = fwd.replied

\* C6: no session is at once in an idle pool and forwarding for a paired connection.
C6_NotIdleWhileForwarding ==
    \A s \in SessIds, p \in PublicPorts : InPool(s, p) => PairsOf(s) = {}

\* a session forwards for a pair while another session waits in the same port's pool
C6_Witness ==
    \E s \in SessIds, s2 \in SessIds, c \in ConnIds :
        /\ c \in PairsOf(s)
        /\ s2 # s
        /\ InPool(s2, conn[c].port)

\* C7: a session is paired with at most one TCP connection at a time.
C7_AtMostOnePair == \A s \in SessIds : Cardinality(PairsOf(s)) <= 1

\* a session that a UDP dispatch took out of the pool and put back is then paired
C7_Witness ==
    \E s \in SessIds, u \in ConnIds :
        /\ PairsOf(s) # {}
        /\ conn[u].kind = "udp" /\ conn[u].sess = s /\ ~conn[u].active

\* C8: once the header is read the target port of a session never changes, and the
\* session is only ever in the idle pool of that port.
C8_OnePortForLife ==
    /\ [](\A s \in SessIds, p \in PublicPorts :
             InPool(s, p) => (sess[s].headerReceived /\ sess[s].targetPort = p))
    /\ [][\A s \in SessIds :
             sess[s].headerReceived => sess'[s].targetPort = sess[s].targetPort]_vars

\* a session is back in the pool of its port after a UDP dispatch, on port 1 while a
\* second session sits in the pool of port 2
C8_Witness ==
    \E s \in SessIds, s2 \in SessIds, u \in ConnIds :
        /\ conn[u].kind = "udp" /\ conn[u].sess = s /\ ~conn[u].active
        /\ InPool(s, sess[s].targetPort)
        /\ InPool(s2, 2)

\* C9: a session whose header names a port without binding is destroyed, is in no idle
\* pool and serves no connection.
C9_UnboundHeaderRefused ==
    [][\A s \in SessIds :
          (ReadsHeader(s) /\ ~Bound(sess'[s].targetPort))
          => /\ Destroyed(sess'[s].sock)
             /\ \A p \in PublicPorts : s \notin Elems(GetArr(idleLocalSockets', p))
             /\ ~Engaged(conn', s)]_vars

\* C11: the port a session is assigned is the big-endian value of the first 4 bytes
\* of its stream, however the stream is cut into chunks.
C11_PortIsFirstFourBytes ==
    (wire.s # 0 /\ sess[wire.s].headerReceived)
        => sess[wire.s].targetPort = readUInt32BE(SubSeq(wire.stream, 1, 4))

\* C10: a session whose header names a bound port (here: one whose listeners have all
\* come up) stays open and is in that port's idle pool or paired from it.
C10_BoundHeaderPooled ==
    [][\A s \in SessIds :
          (/\ ReadsHeader(s)
           /\ Bound(sess'[s].targetPort)
           /\ sess'[s].targetPort \notin tcpPending \cup udpPending)
          => /\ sess'[s].sock = "open"
             /\ \/ s \in Elems(GetArr(idleLocalSockets', sess'[s].targetPort))
                \/ Engaged(conn', s)]_vars

\* ---- the port registry as the specification describes it ----
\* the ports covered by an enabled range or an enabled singleton of config
Covered ==
    {p \in 1..3 :
        \/ \E i \in DOMAIN config.portRanges :
              /\ config.portRanges[i].enabled
              /\ config.portRanges[i].startPort <= p
              /\ p <= config.portRanges[i].endPort
        \/ \E i \in DOMAIN config.specificPorts :
              config.specificPorts[i].enabled /\ config.specificPorts[i].port = p}
\* the Gateway's own web and data-plane ports
Reserved(p) == p = config.server.webPort \/ p = config.server.localProxyPort
\* the available set: covered, not bound, not reserved
Available == {p \in Covered : ~Bound(p) /\ ~Reserved(p)}
Smallest(S) == CHOOSE x \in S : \A y \in S : x <= y
\* every listener the protocol recorded for p asks for is listening or about to
ListenersUp(p) ==
    /\ portProtocols[p] \in {"tcp", "both"} => p \in tcpPending \cup activeServers
    /\ portProtocols[p] \in {"udp", "both"} => p \in udpPending \cup activeUdpServers

\* C12: two allocate requests handled before either listener has finished binding
\* are not both answered with the same port: there are never two bindings recorded
\* for one public port.
C12_OneBindingPerPort ==
    \A l1 \in DOMAIN portMappings, l2 \in DOMAIN portMappings :
        l1 # l2 => portMappings[l1] # portMappings[l2]

\* C13: in every state and for every configuration, an allocate request is answered
\* with its preferred port when that is set and in the available set, otherwise with
\* the numerically smallest port of the available set, and fails when the set is empty.
C13_PreferredElseSmallest ==
    \A r \in RegRequests :
        LET reply == allocateReply(r.localPort, r.preferredPort, r.protocol)
        IN  IF r.preferredPort # 0 /\ r.preferredPort \in Available
            THEN reply.success /\ reply.publicPort = r.preferredPort
            ELSE IF Available # {}
            THEN reply.success /\ reply.publicPort = Smallest(Available)
            ELSE ~reply.success

\* C14: an allocation that leaves a binding behind has every listener it asked for:
\* when a listener fails to bind, the port does not become bound.
C14_BoundOnlyWithListeners ==
    [][\A p \in PublicPorts :
          (~Bound(p) /\ p \in DOMAIN portProtocols') => ListenersUp(p)']_vars

\* C15: a port without binding accepts no end-user connection: a released port
\* accepts none until it is allocated again.
C15_ReleasedPortAcceptsNothing ==
    [][\A c \in ConnIds :
          (conn[c].kind = "none" /\ conn'[c].kind # "none")
          => \E p \in PublicPorts : p = conn'[c].port /\ Bound(p)]_vars

\* C16: a port without binding has no pending-queue entry and no idle-pool entry:
\* after a release none reappears until the port is allocated again.
C16_ReleasedPortHasNoEntries ==
    \A p \in PublicPorts :
        ~Bound(p) => (p \notin DOMAIN waitingQueue /\ p \notin DOMAIN idleLocalSockets)

\* C17: a covered, unreserved port P that has no binding, in particular one that was
\* allocated and released, is what allocate(preferred = P) returns.
C17_ReleasedPortIsGrantedAgain ==
    \A r \in RegRequests :
        (r.preferredPort \in Covered /\ ~Reserved(r.preferredPort)
            /\ ~Bound(r.preferredPort))
        => LET reply == allocateReply(r.localPort, r.preferredPort, r.protocol)
           IN  reply.success /\ reply.publicPort = r.preferredPort

\* C18: while the binding localPort -> P exists, repeating the request
\* (localPort, preferred = P) is answered with P again.
C18_RepeatedRequestSamePort ==
    \A l \in DOMAIN portMappings :
        portMappings[l] \in DOMAIN portProtocols
        => LET P == portMappings[l]
               reply == allocateReply(l, P, portProtocols[P])
           IN  reply.success /\ reply.publicPort = P

\* C19: the list of GET /api/ports/available holds, the Gateway's own ports left
\* aside, exactly the covered ports that are not bound.
C19_AvailableList ==
    {p \in Elems(getAvailablePorts(config)) : ~Reserved(p)} = Available

\* C20: a step that dispatches a datagram onto a session leaves the session in the
\* idle pool of the port.
C20_DispatchKeepsSessionIdle ==
    [][\A u \in ConnIds :
          (conn[u].kind = "none" /\ conn'[u].kind = "udp")
          => conn'[u].sess \in Elems(GetArr(idleLocalSockets', conn'[u].port))]_vars

\* a datagram arrives: handleUdpMessage takes a connection id and it is not one of a
\* TCP connection
UdpArrival == connectionId' > connectionId /\ conn'[connectionId'].kind # "tcp"

\* C21: a datagram that arrives while no UDP port has a session in its idle pool is
\* dropped: no record of it is made, and the pending queues, the idle pools and the
\* active connections are as before.
C21_DroppedWithoutTrace ==
    [][(UdpArrival /\ \A p \in activeUdpServers : GetArr(idleLocalSockets, p) = << >>)
       => /\ conn' = conn
          /\ waitingQueue' = waitingQueue
          /\ idleLocalSockets' = idleLocalSockets
          /\ activeConnections' = activeConnections]_vars

\* the last connection id went to a datagram that left no record, on a Gateway with a
\* UDP port and an empty pool
C21_Witness ==
    /\ connectionId >= 1
    /\ conn[connectionId].kind = "none"
    /\ activeUdpServers # {}
    /\ \A p \in activeUdpServers : GetArr(idleLocalSockets, p) = << >>

\* ---- datagrams end to end: end user, Gateway, session, Agent, local service ----
\* Port 1 is a UDP port with two sessions in its idle pool; the mapping either uses
\* the Agent's per-client socket cache or a fresh socket for every envelope.
InitUdp ==
    /\ connectionId = 0
    /\ waitingQueue = (1 :> << >>)
    /\ idleLocalSockets = (1 :> <<1, 2>>)
    /\ activeConnections = {}
    /\ statsActive = 0
    /\ tcpPending = {}
    /\ udpPending = {}
    /\ portMappings = (1 :> 1)
    /\ portProtocols = (1 :> "udp")
    /\ activeServers = {}
    /\ activeUdpServers = {1}
    /\ conn = [c \in ConnIds |-> NoConn]
    /\ sess = [s \in SessIds |->
                 IF s \in {1, 2}
                 THEN [sock |-> "open", headerReceived |-> TRUE, targetPort |-> 1]
                 ELSE NoSess]
    /\ nextSess = 2
    /\ fwd = FwdIdle
    /\ config = defaultConfig
    /\ \E l \in BOOLEAN : udpFlow = [NoUdp EXCEPT !.isL4D2 = l]
    /\ agent = NoAgent
    /\ codec = NoCodec
    /\ wire = NoWire

\* the 8-byte header handleUdpMessage puts before the datagram: rinfo.address and
\* rinfo.port of the sender
clientInfo(client) == client

\* the header handleResponse puts before the reply: four zero bytes and port 0
responseHeader(client) == "0.0.0.0:0"

\* a datagram of end user client on publicPort: handleUdpMessage, and the envelope it
\* writes to the session it took
UdpDatagram(client, publicPort) ==
    /\ dispatchUdp(publicPort)
    /\ LET u == connectionId'
       IN  udpFlow' =
             IF conn'[u].kind = "udp"
             THEN [udpFlow EXCEPT
                     !.req[u] = [client |-> client, sess |-> conn'[u].sess,
                                 at |-> "agent", responseReceived |-> FALSE],
                     !.toAgent[conn'[u].sess] =
                         Append(@, [of |-> u, header |-> clientInfo(client)])]
             ELSE udpFlow

\* getOrCreateL4D2UdpClient(mapping.id, clientIP, clientPort, ..) followed by
\* `if (!isL4D2 || !localUdpClient.listenerCount('message'))`: the cached socket of
\* the client is reused with the handler it has, or a new one is cached and the
\* handler of request u is registered on it
getOrCreateL4D2UdpClient(cache, client, u) ==
    IF cache[client].held THEN cache
    ELSE [cache EXCEPT ![client] = [held |-> TRUE, first |-> u]]

\* 'data' on the Agent's proxySocket of session s with an envelope: the datagram is
\* sent to the local service from the cached socket or from a new one
AgentUdpData(s) ==
    /\ udpFlow.toAgent[s] # << >>
    /\ LET e == Head(udpFlow.toAgent[s])
           u == e.of
       IN  udpFlow' = [udpFlow EXCEPT
                         !.toAgent[s] = Tail(@),
                         !.req[u].at = "local",
                         !.cache = IF udpFlow.isL4D2
                                   THEN getOrCreateL4D2UdpClient(@, e.header, u)
                                   ELSE @]
    /\ UNCHANGED <<tables, fwd, agent, codec>>

\* the request whose handleResponse is registered on the socket request u was sent
\* from
handlerOf(u) ==
    IF udpFlow.isL4D2 THEN udpFlow.cache[udpFlow.req[u].client].first ELSE u

\* the local service answers request u: 'message' on the socket u was sent from.
\* handleResponse of the registered handler returns if its responseReceived is set;
\* otherwise it sets it and writes the wrapped reply on the proxySocket of its closure
LocalReply(u) ==
    /\ udpFlow.req[u].at = "local"
    /\ LET h == handlerOf(u)
       IN  udpFlow' =
             IF udpFlow.req[h].responseReceived
             THEN [udpFlow EXCEPT !.req[u].at = "dropped"]
             ELSE [udpFlow EXCEPT
                     !.req[u].at = "replied",
                     !.req[h].responseReceived = TRUE,
                     !.toGateway[udpFlow.req[h].sess] =
                         Append(@, [of |-> u,
                                    header |-> responseHeader(udpFlow.req[u].client)])]
    /\ UNCHANGED <<tables, fwd, agent, codec>>

\* responseTimeout of the data-handler invocation for request u (15 s with the cache,
\* 5 s without): sets responseReceived, and closes the socket if it is not a cached one
AgentUdpTimeout(u) ==
    /\ udpFlow.req[u].at \in {"local", "replied", "dropped"}
    /\ ~udpFlow.req[u].responseReceived
    /\ udpFlow' = [udpFlow EXCEPT !.req[u].responseReceived = TRUE]
    /\ UNCHANGED <<tables, fwd, agent, codec>>

\* the 30 s timer of getOrCreateL4D2UdpClient: the socket of the client is closed and
\* leaves the cache; replies to the requests sent from it find no socket
L4D2Cleanup(client) ==
    /\ udpFlow.cache[client].held
    /\ udpFlow' = [udpFlow EXCEPT
                     !.cache[client] = [held |-> FALSE, first |-> 0],
                     !.req = [u \in ConnIds |->
                                IF @[u].client = client /\ @[u].at = "local"
                                THEN [@[u] EXCEPT !.at = "lost"] ELSE @[u]]]
    /\ UNCHANGED <<tables, fwd, agent, codec>>

\* 'data' on the Gateway's session s with a wrapped reply: every responseHandler
\* registered on s sends the payload to the rinfo of its own closure; with no handler
\* on s the chunk is not a reply to anyone
GwUdpData(s) ==
    /\ udpFlow.toGateway[s] # << >>
    /\ LET e == Head(udpFlow.toGateway[s])
           H == HandlersOf(s)
       IN  /\ udpFlow' = [udpFlow EXCEPT
                            !.toGateway[s] = Tail(@),
                            !.out = @ \cup {[to |-> udpFlow.req[h].client,
                                             of |-> udpFlow.req[e.of].client,
                                             request |-> e.of] : h \in H}]
           /\ IF H # {} THEN respondUdp(s) ELSE UNCHANGED <<tables, fwd, agent, codec>>

NextUdp ==
    \/ \E client \in Clients, p \in PublicPorts :
          connectionId + udpIds(p) <= MaxDatagrams /\ UdpDatagram(client, p)
    \/ \E s \in SessIds : AgentUdpData(s)
    \/ \E u \in ConnIds : LocalReply(u)
    \/ \E u \in ConnIds : AgentUdpTimeout(u)
    \/ \E client \in Clients : L4D2Cleanup(client)
    \/ \E s \in SessIds : GwUdpData(s)
    \/ \E u \in ConnIds : UdpTimeout(u)

SpecUdp == InitUdp /\ [][NextUdp]_vars

\* C22: every datagram the Gateway sends to an end user carries the reply to a request
\* of that end user.
C22_ReplyReachesItsClient == \A o \in udpFlow.out : o.to = o.of

\* C23: every wrapped reply the Agent has written on a session carries the address and
\* port of the end user whose request it answers.
C23_EnvelopeCarriesClient ==
    \A s \in SessIds : \A i \in 1..Len(udpFlow.toGateway[s]) :
        LET e == udpFlow.toGateway[s][i]
        IN  e.header = clientInfo(udpFlow.req[e.of].client)

\* the local service answers request u in this step, before the response timer of u
\* ran out, on a socket of the Agent's cache
CachedReply(u) ==
    /\ udpFlow.isL4D2
    /\ udpFlow.req[u].at = "local"
    /\ ~udpFlow.req[u].responseReceived
    /\ udpFlow'.req[u].at \in {"replied", "dropped"}

\* C24: when the local service answers a request on a cached socket, the reply is
\* wrapped and written on the session that carried the request, for the first request
\* of the client on that socket and for every later one.
C24_CachedReplyGoesBack ==
    [][\A u \in ConnIds :
          CachedReply(u)
          => LET s == udpFlow.req[u].sess
             IN  /\ Len(udpFlow'.toGateway[s]) = Len(udpFlow.toGateway[s]) + 1
                 /\ udpFlow'.toGateway[s][Len(udpFlow'.toGateway[s])].of = u]_vars

\* ---- one envelope from handleUdpMessage to the Agent's data handler ----
\* bytes of a datagram's payload in one envelope
MaxPayload == 2
\* buf.writeUInt16BE(v, i): two bytes, high byte first
writeUInt16BE(v) == <<(v \div 256) % 256, v % 256>>
\* buf.readUInt16BE(i)
readUInt16BE(data, i) == data[i + 1] * 256 + data[i + 2]
\* the addresses, as rinfo.address.split('.') with parseInt on each part gives them,
\* ports and payloads of the datagrams
Addresses == {<<10, 0, 0, 1>>, <<192, 168, 1, 255>>, <<127, 0, 0, 1>>}
Ports == {1, 255, 256, 27015, 65535}
RECURSIVE Payloads(_)
Payloads(n) ==
    IF n = 0 THEN {<< >>}
    ELSE Payloads(n - 1) \cup {Append(m, b) : m \in Payloads(n - 1), b \in {0, 255}}

\* handleUdpMessage: Buffer.concat([clientInfo, msg])
wrappedData(address, port, msg) ==
    address \o writeUInt16BE(port) \o writeUInt16BE(Len(msg)) \o msg

\* the Agent's data handler on one chunk: the datagram it sends to the local service,
\* or the chunk taken for bytes of a TCP connection
agentDecode(data) ==
    IF Len(data) >= 8
    THEN LET clientIP == SubSeq(data, 1, 4)
             clientPort == readUInt16BE(data, 4)
             udpDataLength == readUInt16BE(data, 6)
             isUdpResponse == clientIP = <<0, 0, 0, 0>> /\ clientPort = 0
         IN  IF ~isUdpResponse /\ Len(data) >= 8 + udpDataLength /\ udpDataLength > 0
             THEN [as |-> "udp", clientIP |-> clientIP, clientPort |-> clientPort,
                   udpData |-> SubSeq(data, 9, 8 + udpDataLength)]
             ELSE [as |-> "tcp", data |-> data]
    ELSE [as |-> "tcp", data |-> data]

InitEnv ==
    /\ connectionId = 0
    /\ waitingQueue = (1 :> << >>)
    /\ idleLocalSockets = (1 :> <<1>>)
    /\ activeConnections = {}
    /\ statsActive = 0
    /\ tcpPending = {}
    /\ udpPending = {}
    /\ portMappings = (1 :> 1)
    /\ portProtocols = (1 :> "udp")
    /\ activeServers = {}
    /\ activeUdpServers = {1}
    /\ conn = [c \in ConnIds |-> NoConn]
    /\ sess = [s \in SessIds |->
                 IF s = 1 THEN [sock |-> "open", headerReceived |-> TRUE, targetPort |-> 1]
                 ELSE NoSess]
    /\ nextSess = 1
    /\ fwd = FwdIdle
    /\ config = defaultConfig
    /\ udpFlow = NoUdp
    /\ agent = NoAgent
    /\ wire = NoWire
    /\ \E address \in Addresses, port \in Ports, msg \in Payloads(MaxPayload) :
          codec = [stage |-> "datagram", address |-> address, port |-> port, msg |-> msg]

\* handleUdpMessage wraps the datagram and writes it to the session
EnvWrap ==
    /\ codec.stage = "datagram"
    /\ codec' = [stage |-> "wrapped", address |-> codec.address, port |-> codec.port,
                 msg |-> codec.msg,
                 data |-> wrappedData(codec.address, codec.port, codec.msg)]
    /\ UNCHANGED <<tables, fwd, udpFlow, agent>>

\* 'data' on the Agent's proxySocket with the envelope in one chunk
EnvDecode ==
    /\ codec.stage = "wrapped"
    /\ codec' = [stage |-> "decoded", address |-> codec.address, port |-> codec.port,
                 msg |-> codec.msg, decoded |-> agentDecode(codec.data)]
    /\ UNCHANGED <<tables, fwd, udpFlow, agent>>

NextEnv == EnvWrap \/ EnvDecode

SpecEnv == InitEnv /\ [][NextEnv]_vars

\* C25: the envelope of every datagram is taken for a datagram by the Agent and
\* decodes to the address, the port and the payload that were encoded.
C25_EnvelopeRoundTrip ==
    codec.stage = "decoded"
    => /\ codec.decoded.as = "udp"
       /\ codec.decoded.clientIP = codec.address
       /\ codec.decoded.clientPort = codec.port
       /\ codec.decoded.udpData = codec.msg

\* ---- a stream of envelopes read chunk by chunk ----
\* envelopes written on one session, and places where the stream is cut into chunks
MaxFrames == 2
MaxCuts == 1
RECURSIVE FrameSeqs(_)
FrameSeqs(n) ==
    IF n = 0 THEN {<< >>}
    ELSE FrameSeqs(n - 1)
         \cup {Append(fs, m) : fs \in FrameSeqs(n - 1), m \in Payloads(MaxPayload) \ {<< >>}}

\* handleResponse: Buffer.concat([responseHeader, responseMsg])
wrappedResponse(responseMsg) ==
    <<0, 0, 0, 0>> \o writeUInt16BE(0) \o writeUInt16BE(Len(responseMsg)) \o responseMsg

\* the bytes the writer puts on the session for the payloads of frames: the Agent
\* writes replies for the Gateway to read, the Gateway writes datagrams of one end
\* user for the Agent to read
RECURSIVE Written(_, _)
Written(reader, frames) ==
    IF frames = << >> THEN << >>
    ELSE (IF reader = "gateway" THEN wrappedResponse(Head(frames))
          ELSE wrappedData(<<10, 0, 0, 1>>, 1, Head(frames)))
         \o Written(reader, Tail(frames))

\* responseHandler on one chunk: the payload it sends to the end user, if the chunk
\* passes its test
gatewayDecode(data) ==
    IF Len(data) >= 8 /\ Len(data) >= 8 + readUInt16BE(data, 6)
    THEN <<SubSeq(data, 9, 8 + readUInt16BE(data, 6))>>
    ELSE << >>

RECURSIVE Times(_, _)
Times(x, n) == IF n = 0 THEN << >> ELSE x \o Times(x, n - 1)

\* the payloads one chunk makes the reader process: each responseHandler on the
\* Gateway's session, or the Agent's data handler
chunkFrames(reader, handlers, data) ==
    IF reader = "gateway" THEN Times(gatewayDecode(data), handlers)
    ELSE IF agentDecode(data).as = "udp" THEN <<agentDecode(data).udpData>> ELSE << >>

InitFrames ==
    /\ connectionId = 0
    /\ waitingQueue = (1 :> << >>)
    /\ idleLocalSockets = (1 :> << >>)
    /\ activeConnections = {}
    /\ statsActive = 0
    /\ tcpPending = {}
    /\ udpPending = {}
    /\ portMappings = (1 :> 1)
    /\ portProtocols = (1 :> "udp")
    /\ activeServers = {}
    /\ activeUdpServers = {1}
    /\ conn = [c \in ConnIds |-> NoConn]
    /\ sess = [s \in SessIds |->
                 IF s = 1 THEN [sock |-> "open", headerReceived |-> TRUE, targetPort |-> 1]
                 ELSE NoSess]
    /\ nextSess = 1
    /\ fwd = FwdIdle
    /\ config = defaultConfig
    /\ udpFlow = NoUdp
    /\ agent = NoAgent
    /\ wire = NoWire
    /\ \E reader \in {"gateway", "agent"}, frames \in FrameSeqs(MaxFrames) \ {<< >>} :
          \E cuts \in SUBSET (1..(Len(Written(reader, frames)) - 1)) :
             /\ Cardinality(cuts) <= MaxCuts
             /\ codec = [stage |-> "stream", reader |-> reader, frames |-> frames,
                         chunks |-> SplitAt(Written(reader, frames), cuts, 1, 1),
                         handlers |-> Len(frames), processed |-> << >>]

\* 'data' on the reader's socket with the next chunk.  On the Gateway every
\* responseHandler that accepts the chunk removes itself; the Agent's handler stays.
FrameChunk ==
    /\ codec.stage = "stream"
    /\ codec.chunks # << >>
    /\ LET got == chunkFrames(codec.reader, codec.handlers, Head(codec.chunks))
       IN  codec' = [codec EXCEPT
                       !.chunks = Tail(@),
                       !.processed = @ \o got,
                       !.handlers = IF codec.reader = "gateway" /\ got # << >>
                                    THEN 0 ELSE @]
    /\ UNCHANGED <<tables, fwd, udpFlow, agent>>

NextFrames == FrameChunk

SpecFrames == InitFrames /\ [][NextFrames]_vars

\* C26: when every chunk of the stream has been read, the reader has processed the
\* frames that were written, each once and in order.
C26_FramesSurviveChunking ==
    (codec.stage = "stream" /\ codec.chunks = << >>) => codec.processed = codec.frames

\* the mapping of the pair has protocol tcp
TcpMapping == fwd.on /\ portProtocols[conn[fwd.c].port] = "tcp"

\* C27: on a mapping with protocol tcp the Agent sends nothing of what it receives on
\* the session as a datagram, and once the local service is connected and nothing is
\* under way, every chunk the end user wrote has reached the local TCP service.
C27_TcpMappingNoDatagram ==
    TcpMapping
    => /\ fwd.udpOut = << >>
       /\ (fwd.extToGw = << >> /\ fwd.gwToAgent = << >> /\ fwd.local = "connected")
             => fwd.localIn = fwd.sent

\* ---- one pair, end to end, with its sockets closing ----
\* 'close' on the Agent's proxySocket after the Gateway's end of the session is gone.
\* cleanup is a listener only once the connect handler of localSocket has run; before
\* that 'close' has no listener.
ProxyCloseEvent ==
    /\ fwd.on
    /\ fwd.proxy = "open"
    /\ Destroyed(sess[fwd.s].sock)
    /\ fwd' = [fwd EXCEPT !.proxy = "closed",
                          !.local = IF @ = "connected" THEN "destroyed" ELSE @]
    /\ UNCHANGED gwVars

\* 'close' or 'error' on the connected localSocket: cleanup destroys both sockets
LocalCloseEvent ==
    /\ fwd.on
    /\ fwd.local = "connected"
    /\ fwd' = [fwd EXCEPT !.local = "closed",
                          !.proxy = IF @ = "open" THEN "destroyed" ELSE @]
    /\ UNCHANGED gwVars

\* 'error' on localSocket while it dials: the error handler destroys proxySocket
LocalError ==
    /\ fwd.on
    /\ fwd.local = "dialing"
    /\ fwd' = [fwd EXCEPT !.local = "closed",
                          !.proxy = IF @ = "open" THEN "destroyed" ELSE @]
    /\ UNCHANGED gwVars

\* the Gateway's end of the session after the Agent destroyed its proxySocket
SessionDropped ==
    /\ fwd.on
    /\ fwd.proxy = "destroyed"
    /\ SessionDestroy(fwd.s)

NextClose ==
    \/ \E udp \in BOOLEAN : ExtSend(udp)
    \/ ForwardExternalToLocal
    \/ fwd.proxy = "open" /\ AgentData
    \/ LocalConnect
    \/ LocalSend
    \/ ForwardLocalToProxy
    \/ ForwardLocalToExternal
    \/ ExternalDestroy(fwd.c)
    \/ ExternalCloseEvent(fwd.c)
    \/ SessionDropped
    \/ SessionCloseEvent(fwd.s)
    \/ ProxyCloseEvent
    \/ LocalCloseEvent
    \/ LocalError

SpecClose == InitFwd /\ [][NextClose]_vars

\* C28: on the Gateway, a pair whose end-user socket or session socket has had its
\* 'close' has both sockets destroyed; on the Agent, a session whose proxySocket has
\* had its 'close' does not keep a connected socket to the local service.
C28_BothSocketsClose ==
    fwd.on
    => /\ (conn[fwd.c].sock = "closed" \/ sess[fwd.s].sock = "closed")
             => (Destroyed(conn[fwd.c].sock) /\ Destroyed(sess[fwd.s].sock))
       /\ ~(fwd.proxy = "closed" /\ fwd.local = "connected")

\* ---- the Agent's connection pool of one mapping ----
AgentSessions == 1..MaxAgentSessions
Live(a) == {i \in AgentSessions : a.socks[i].st \in {"dialing", "idle", "localDial", "active"}}
Free(a) == {i \in AgentSessions : a.socks[i].st = "none"}

\* createMappingConnection(mapping) would open a socket
dials(a) ==
    /\ a.on
    /\ a.pools[a.gen].activeConnections + a.pools[a.gen].idleConnections
          < MAX_TOTAL_CONNECTIONS

\* createMappingConnection(mapping): return if the mapping is stopped or the counters
\* of its pool reach MAX_TOTAL_CONNECTIONS; else idleConnections++ and net.connect
createMappingConnection(a) ==
    IF ~dials(a) THEN a
    ELSE LET i == CHOOSE x \in Free(a) : \A y \in Free(a) : x <= y
         IN  [a EXCEPT !.pools[a.gen].idleConnections = @ + 1,
                       !.socks[i] = [st |-> "dialing", pool |-> a.gen, header |-> 0]]

\* maintainMappingConnections(mapping) up to its setTimeout
maintainMappingConnections(a) ==
    IF a.pools[a.gen].idleConnections < MIN_IDLE_CONNECTIONS
    THEN createMappingConnection(a) ELSE a

\* a socket is there for a dial: sessions are not numbered beyond MaxAgentSessions
Room(a) == Free(a) # {}

AgentStep(a) ==
    /\ agent' = a
    /\ UNCHANGED <<tables, fwd, udpFlow, codec>>

\* startMapping(mapping), from the creation of the pool on
startMapping ==
    /\ ~agent.on
    /\ agent.gen < MaxStarts
    /\ Room(agent)
    /\ LET a == [agent EXCEPT !.on = TRUE, !.gen = @ + 1, !.chains = @ + 1]
       IN  AgentStep(maintainMappingConnections(a))

\* stopMapping(mappingId): the mapping and its pool leave the maps
stopMapping ==
    /\ agent.on
    /\ AgentStep([agent EXCEPT !.on = FALSE])

\* the timer of maintainMappingConnections fires
MaintainTick ==
    /\ agent.chains > 0
    /\ Room(agent)
    /\ AgentStep(IF agent.on THEN maintainMappingConnections(agent)
                 ELSE [agent EXCEPT !.chains = @ - 1])

\* the retry timer of a closed session fires: createMappingConnection(mapping)
RetryFire ==
    /\ agent.retries > 0
    /\ Room(agent)
    /\ AgentStep(createMappingConnection([agent EXCEPT !.retries = @ - 1]))

\* proxySocket.on('connect'): the header is written, the session waits for data
ProxyConnect(i) ==
    /\ agent.socks[i].st = "dialing"
    /\ AgentStep([agent EXCEPT !.socks[i].st = "idle",
                                !.socks[i].header = agent.publicPort])

\* proxySocket.on('error') of a session that dials or waits
ProxyError(i) ==
    /\ agent.socks[i].st \in {"dialing", "idle"}
    /\ agent.retries < MaxAgentSessions
    /\ LET g == agent.socks[i].pool
       IN  AgentStep([agent EXCEPT
                        !.socks[i].st = "closed",
                        !.pools[g].idleConnections = IF @ > 0 THEN @ - 1 ELSE @,
                        !.retries = @ + 1])

\* the Gateway closes a session that waits (header refused or timed out, port
\* released, Gateway stopped): 'close' on proxySocket, which has no listener yet
ProxyCloseIdle(i) ==
    /\ agent.socks[i].st = "idle"
    /\ AgentStep([agent EXCEPT !.socks[i].st = "closed"])

\* the first chunk on a waiting session: net.connect to the local service,
\* idleConnections--, activeConnections++
FirstData(i) ==
    /\ agent.socks[i].st = "idle"
    /\ LET g == agent.socks[i].pool
       IN  AgentStep([agent EXCEPT
                        !.socks[i].st = "localDial",
                        !.pools[g].idleConnections = @ - 1,
                        !.pools[g].activeConnections = @ + 1])

\* localSocket.on('connect')
AgentLocalConnect(i) ==
    /\ agent.socks[i].st = "localDial"
    /\ AgentStep([agent EXCEPT !.socks[i].st = "active"])

\* localSocket.on('error') while it dials: idleConnections--, proxySocket.destroy()
\* and the retry timer
AgentLocalError(i) ==
    /\ agent.socks[i].st = "localDial"
    /\ agent.retries < MaxAgentSessions
    /\ LET g == agent.socks[i].pool
       IN  AgentStep([agent EXCEPT
                        !.socks[i].st = "closed",
                        !.pools[g].idleConnections = @ - 1,
                        !.retries = @ + 1])

\* cleanup of a forwarding session: activeConnections--, both sockets destroyed, and
\* the replacement timer if the mapping is active
AgentCleanup(i) ==
    /\ agent.socks[i].st = "active"
    /\ agent.retries < MaxAgentSessions
    /\ LET g == agent.socks[i].pool
       IN  AgentStep([agent EXCEPT
                        !.socks[i].st = "closed",
                        !.pools[g].activeConnections = IF @ > 0 THEN @ - 1 ELSE @,
                        !.retries = IF agent.on THEN @ + 1 ELSE @])

InitAgent ==
    /\ connectionId = 0
    /\ waitingQueue = (1 :> << >>)
    /\ idleLocalSockets = (1 :> << >>)
    /\ activeConnections = {}
    /\ statsActive = 0
    /\ tcpPending = {}
    /\ udpPending = {}
    /\ portMappings = (1 :> 1)
    /\ portProtocols = (1 :> "tcp")
    /\ activeServers = {1}
    /\ activeUdpServers = {}
    /\ conn = [c \in ConnIds |-> NoConn]
    /\ sess = [s \in SessIds |-> NoSess]
    /\ nextSess = 0
    /\ fwd = FwdIdle
    /\ config = defaultConfig
    /\ udpFlow = NoUdp
    /\ agent = NoAgent
    /\ codec = NoCodec
    /\ wire = NoWire

NextAgent ==
    \/ startMapping
    \/ stopMapping
    \/ MaintainTick
    \/ RetryFire
    \/ \E i \in AgentSessions : ProxyConnect(i)
    \/ \E i \in AgentSessions : ProxyError(i)
    \/ \E i \in AgentSessions : ProxyCloseIdle(i)
    \/ \E i \in AgentSessions : FirstData(i)
    \/ \E i \in AgentSessions : AgentLocalConnect(i)
    \/ \E i \in AgentSessions : AgentLocalError(i)
    \/ \E i \in AgentSessions : AgentCleanup(i)

SpecAgent == InitAgent /\ [][NextAgent]_vars

\* sessions of the mapping that dial or wait for data
IdleSessions(a) == {i \in AgentSessions : a.socks[i].st \in {"dialing", "idle"}}

\* nothing is left that dials a session: no session lives whose callbacks change the
\* counters, no retry timer is pending, and the maintenance timer finds the idle
\* counter at MIN_IDLE_CONNECTIONS or above
NoDialToCome ==
    /\ Live(agent) = {}
    /\ agent.retries = 0
    /\ agent.pools[agent.gen].idleConnections >= MIN_IDLE_CONNECTIONS

\* C29: an active mapping with fewer live sessions than MAX_TOTAL_CONNECTIONS and
\* fewer idle sessions than MIN_IDLE_CONNECTIONS always has a dial to come.
C29_IdleSessionsReplaced ==
    (/\ agent.on
     /\ Cardinality(Live(agent)) < MAX_TOTAL_CONNECTIONS
     /\ Cardinality(IdleSessions(agent)) < MIN_IDLE_CONNECTIONS)
    => ~NoDialToCome

\* C30: the sessions of the mapping that are not closed are at most
\* MAX_TOTAL_CONNECTIONS.
C30_LiveSessionsBounded == Cardinality(Live(agent)) <= MAX_TOTAL_CONNECTIONS

\* a waiting session of the Agent is closed in this step
IdleSessionCloses(i) == agent.socks[i].st = "idle" /\ agent'.socks[i].st = "closed"

\* C31: a step in which a waiting session of the Agent is closed, as it is when the
\* Gateway refuses its header, takes the session out of the idle counter of its pool
\* and leaves a timer that dials a replacement.
C31_RefusalRegistered ==
    [][\A i \in AgentSessions :
          IdleSessionCloses(i)
          => /\ agent'.retries > agent.retries
             /\ agent'.pools[agent.socks[i].pool].idleConnections
                   < agent.pools[agent.socks[i].pool].idleConnections]_vars

\* C34: connectionStats.activeConnections is the number of entries of
\* activeConnections, and is never negative.
C34_CounterIsMapSize ==
    /\ statsActive = Cardinality(activeConnections)
    /\ statsActive >= 0

\* C35: at most one timer chain of maintainMappingConnections is pending for the
\* mapping.
C35_OneMaintainChain == agent.chains <= 1

\* C36: a session in an idle pool has not had its close handler run.
C36_NoClosedSessionInPool ==
    \A p \in DOMAIN idleLocalSockets :
        \A s \in Elems(idleLocalSockets[p]) : sess[s].sock # "closed"

\* the sessions whose closures hold pool object g and that are not closed
LiveOf(a, g) == {i \in Live(a) : a.socks[i].pool = g}

\* C37: in every pool object of the Agent, idleConnections and activeConnections are
\* not negative and add up to the number of its sessions that are not closed.
C37_CountersMatchSessions ==
    \A g \in 1..MaxStarts :
        /\ agent.pools[g].idleConnections >= 0
        /\ agent.pools[g].activeConnections >= 0
        /\ agent.pools[g].idleConnections + agent.pools[g].activeConnections
              = Cardinality(LiveOf(agent, g))

\* ---- the port registry when every listener is up before the next request ----
Settled == tcpPending = {} /\ udpPending = {}

NextSettled ==
    \/ \E r \in RegRequests :
          Settled /\ Allocate(r.localPort, r.preferredPort, r.protocol)
    \/ \E p \in PublicPorts : TcpListenCallback(p)
    \/ \E p \in PublicPorts : UdpListenCallback(p)
    \/ \E l \in LocalPorts : Settled /\ Release(l)

SpecSettled == InitReg /\ [][NextSettled]_vars

\* C39: every public port with a TCP or UDP listener is the value of a portMappings
\* entry.
C39_ListenerHasMapping ==
    \A p \in activeServers \cup activeUdpServers : p \in RanOf(portMappings)

\* a paired connection whose two sockets have both had their close event, and a UDP
\* dispatch that has ended
C34_Witness ==
    /\ \E c \in ConnIds :
          /\ conn[c].kind = "tcp" /\ conn[c].sess # 0 /\ ~conn[c].active
          /\ conn[c].sock = "closed" /\ sess[conn[c].sess].sock = "closed"
    /\ \E u \in ConnIds : conn[u].kind = "udp" /\ conn[u].sess # 0 /\ ~conn[u].active

\* ---- one mapping of the Agent and the Gateway's registry ----
\* The mapping has localPort 1 and protocol tcp and no preferredPort of its own.
Calls == 1..MaxCalls
mappingLocalPort == 1
mappingProtocol == "tcp"

\* startMapping(mapping) up to its first await: `if (activeMappings.has(mapping.id))
\* return`, then requestPortAllocation with preferredPort = mapping.publicPort ||
\* mapping.preferredPort
StartCall(k) ==
    /\ agent.calls[k].stage = "none"
    /\ \A j \in Calls : j < k => agent.calls[j].stage # "none"
    /\ ~agent.on
    /\ AgentStep([agent EXCEPT !.calls[k] =
                     [NoCall EXCEPT !.stage = "asked",
                                    !.reuse = agent.publicPort # 0,
                                    !.preferredPort = agent.publicPort]])

\* the Gateway handles the allocation request of call k and answers it
GatewayAnswers(k) ==
    /\ agent.calls[k].stage = "asked"
    /\ LET preferredPort == agent.calls[k].preferredPort
           r == allocateReply(mappingLocalPort, preferredPort, mappingProtocol)
       IN  /\ IF r.success
              THEN allocatePort(mappingLocalPort, preferredPort, mappingProtocol,
                                TRUE, TRUE)
              ELSE UNCHANGED <<tables, fwd, udpFlow, codec>>
           /\ agent' = [agent EXCEPT
                          !.calls[k].stage = "answered",
                          !.calls[k].reply = r,
                          !.answer = IF r.success THEN r.publicPort ELSE @]

\* mapping.publicPort after startMapping resumed from the allocation request that
\* was to reuse the stored port: the stored port, whatever the response named
reusedPort(a, reply) == a.publicPort

\* mapping.publicPort when the port of the response is taken
repliedPort(a, reply) == reply.publicPort

\* startMapping resumes from `await requestPortAllocation(mapping)`.  In the branch
\* that reuses the stored port a resolved request leaves mapping.publicPort as it is,
\* a rejected one clears it and asks again; in the other branch a resolved request
\* gives the port and a rejected one ends the call.
StartResume(k) ==
    /\ agent.calls[k].stage = "answered"
    /\ LET c == agent.calls[k]
       IN  AgentStep(
             IF c.reply.success
             THEN [agent EXCEPT
                     !.calls[k].stage = "testing",
                     !.publicPort = IF c.reuse THEN reusedPort(agent, c.reply)
                                    ELSE repliedPort(agent, c.reply)]
             ELSE IF c.reuse
             THEN [agent EXCEPT
                     !.publicPort = 0,
                     !.calls[k] = [NoCall EXCEPT !.stage = "asked"]]
             ELSE [agent EXCEPT !.calls[k].stage = "done"])

\* startMapping resumes from `await testLocalServerConnection(..)`: a new pool, the
\* mapping becomes active, maintainMappingConnections(mapping)
StartFinish(k) ==
    /\ agent.calls[k].stage = "testing"
    /\ agent.gen < MaxStarts
    /\ Room(agent)
    /\ LET a == [agent EXCEPT !.calls[k].stage = "done", !.on = TRUE,
                              !.gen = @ + 1, !.chains = @ + 1]
       IN  AgentStep(maintainMappingConnections(a))

InitMap == InitReg /\ config = defaultConfig

NextMap ==
    \/ \E k \in Calls : StartCall(k)
    \/ \E k \in Calls : GatewayAnswers(k)
    \/ \E k \in Calls : StartResume(k)
    \/ \E k \in Calls : StartFinish(k)
    \/ stopMapping
    \/ \E p \in PublicPorts : TcpListenCallback(p)
    \/ \E i \in AgentSessions : ProxyConnect(i)

SpecMap == InitMap /\ [][NextMap]_vars

\* no call of startMapping is between its request and its end
NoCallInFlight == \A k \in Calls : agent.calls[k].stage \in {"none", "done"}

\* ---- the mapping started, stopped and started again, one call at a time ----
NextRestart ==
    \/ \E k \in Calls : NoCallInFlight /\ StartCall(k)
    \/ \E k \in Calls : GatewayAnswers(k)
    \/ \E k \in Calls : StartResume(k)
    \/ \E k \in Calls : StartFinish(k)
    \/ stopMapping
    \/ \E p \in PublicPorts : TcpListenCallback(p)
    \/ \E i \in AgentSessions : ProxyConnect(i)

SpecRestart == InitMap /\ [][NextRestart]_vars

\* stopMapping runs in this step
Stops == agent.on /\ ~agent'.on

\* C32: the step that stops the mapping leaves none of its sessions open.
C32_StopClosesSessions == [][Stops => Live(agent') = {}]_vars

\* call k sends its allocation request / resumes from it in this step
Asks(k) == agent.calls[k].stage = "none" /\ agent'.calls[k].stage = "asked"
Resumes(k) == agent.calls[k].stage = "answered" /\ agent'.calls[k].stage # "answered"

\* C33: a start of a mapping that has a public port asks for that port as preferred
\* port, and when the Gateway's answer is back the mapping has the port of the
\* answer: its own port if the Gateway granted it, the Gateway's choice if not.
C33_StickyUntilRefused ==
    [][\A k \in Calls :
          /\ (Asks(k) /\ agent.publicPort # 0)
                => agent'.calls[k].preferredPort = agent.publicPort
          /\ (Resumes(k) /\ agent.calls[k].reply.success)
                => agent'.publicPort = agent.calls[k].reply.publicPort]_vars

\* session i connects and writes its header in this step
WritesHeader(i) == agent.socks[i].st = "dialing" /\ agent'.socks[i].st = "idle"

\* C38: once startMapping has succeeded, the header a session writes names the port
\* of the Gateway's latest successful allocation answer.
C38_HeaderIsGrantedPort ==
    [][\A i \in AgentSessions :
          (WritesHeader(i) /\ agent.on /\ NoCallInFlight)
          => agent'.socks[i].header = agent.answer]_vars

\* the calls of startMapping whose allocation request has bound a port and that
\* have not ended
Binding(a) ==
    {k \in Calls : a.calls[k].stage \in {"answered", "testing"} /\ a.calls[k].reply.success}

\* C40: at no time have two unfinished calls of startMapping each bound a port at the
\* Gateway, and no pool is created for a mapping that is active.
C40_OneStartAtATime ==
    [][/\ Cardinality(Binding(agent')) <= 1
       /\ agent.on => agent'.gen = agent.gen]_vars

====
